---- MODULE Spec2Model ----
(***************************************************************************)
(* A model of src/cli.py: the Command / Flag / Param builders, the command *)
(* lookup, the token-scanning parser parse_args and the text of print_help.*)
(*                                                                         *)
(* Python strings are modelled as sequences of one-character strings, so   *)
(* that strip, startswith, split and the per-character short cluster are   *)
(* computed as the code computes them.                                     *)
(***************************************************************************)
EXTENDS Integers, Sequences, FiniteSets, TLC

VARIABLES
    item,            \* SpecFlag: the Flag or Param object under construction
    cmd,             \* SpecBuild: the Command object under construction
    last,            \* the last builder call: its name, its argument, whether it raised
    commands,        \* parse_args: the commands argument
    argv,            \* parse_args: the argv argument
    pc,              \* parse_args, print_help: position of the call
    command,         \* _ArgParse.command
    idx,             \* _ArgParse.idx
    param_idx,       \* _ArgParse.param_idx
    values,          \* _ArgParse.values, a mapping from attribute name to value
    required_flags,  \* _ArgParse.required_flags
    arg_value,       \* parse_args: the token the scanning loop fetched last
    flag_names,      \* _parse_short: the flag names of the cluster still to visit
    outcome,         \* what parse_args gave its caller: nothing yet, an Args, or an exception
    seen,            \* history: the flag occurrences resolved so far, in order
    printed,         \* print_help: the lines written to file so far
    first            \* history: what the call before this one, on the same commands and
                     \* argv, gave its caller (nothing when this is the first call)

vars == <<item, cmd, last, commands, argv, pc, command, idx, param_idx, values,
          required_flags, arg_value, flag_names, outcome, seen, printed, first>>

buildVars == <<item, cmd, last>>
parseVars == <<commands, argv, pc, command, idx, param_idx, values,
               required_flags, arg_value, flag_names, outcome, seen, printed, first>>

----------------------------------------------------------------------------
(* Bounds of the model *)

MaxAliases == 1     \* short aliases, and long aliases, one builder chain adds to an object
MaxItems == 3       \* Flags plus Params one Command receives through arg
MaxArgs == 3        \* tokens of argv after the command token
MaxNameLen == 3     \* characters of the name of a Param that print_help renders

----------------------------------------------------------------------------
(* Python str operations *)

IsSpace(c) == c = " "

RECURSIVE LStrip(_)
LStrip(s) == IF s # <<>> /\ IsSpace(Head(s)) THEN LStrip(Tail(s)) ELSE s

RECURSIVE RStrip(_)
RStrip(s) ==
    IF s # <<>> /\ IsSpace(s[Len(s)]) THEN RStrip(SubSeq(s, 1, Len(s) - 1)) ELSE s

Strip(s) == RStrip(LStrip(s))

StartsWith(s, p) == Len(s) >= Len(p) /\ SubSeq(s, 1, Len(p)) = p

LowerChar(c) ==
    CASE c = "R" -> "r"
      [] c = "U" -> "u"
      [] OTHER -> c

Lower(s) == [i \in 1..Len(s) |-> LowerChar(s[i])]

\* str.split("=", 1): one part when s holds no "=", else the text before and
\* after the first "="
Split1(s) ==
    LET eqs == {i \in 1..Len(s) : s[i] = "="}
    IN  IF eqs = {} THEN <<s>>
        ELSE LET k == CHOOSE i \in eqs : \A j \in eqs : i <= j
             IN  <<SubSeq(s, 1, k - 1), SubSeq(s, k + 1, Len(s))>>

----------------------------------------------------------------------------
(* Python values stored in defaults and in the values mapping, as tagged   *)
(* records of one shape.                                                   *)

MkVal(tag, num, chars, items) ==
    [tag |-> tag, num |-> num, chars |-> chars, items |-> items]

PyNone == MkVal("None", 0, <<>>, <<>>)
PyTrue == MkVal("True", 0, <<>>, <<>>)
PyInt(n) == MkVal("int", n, <<>>, <<>>)
PyStr(s) == MkVal("str", 0, s, <<>>)
PyList(xs) == MkVal("list", 0, <<>>, xs)
\* the object a conversion function p returned for the string s
PyConv(p, s) == MkVal(p, 0, s, <<>>)

\* Python truthiness of a value
Truthy(v) ==
    CASE v.tag = "None" -> FALSE
      [] v.tag = "int" -> v.num # 0
      [] v.tag = "str" -> v.chars # <<>>
      [] v.tag = "list" -> v.items # <<>>
      [] OTHER -> TRUE

----------------------------------------------------------------------------
(* Outcome of one builder call: the object after the call, and whether the *)
(* call raised ValueError (the object is then as the code left it).        *)

Returned(o) == [raised |-> FALSE, self |-> o]
Raised(o) == [raised |-> TRUE, self |-> o]

NoObj == [type |-> "none"]

----------------------------------------------------------------------------
(* class Flag *)

Flag_init(name) ==
    LET n == Strip(name)
    IN  IF n = <<>> THEN Raised(NoObj)
        ELSE Returned([type |-> "flag", name |-> n, description |-> PyNone,
                       required |-> FALSE,
                       short |-> <<>>, long |-> <<>>, parser |-> "None",
                       kind |-> "present", default |-> PyNone])

Flag_short(self, name) ==
    LET n == Strip(name)
    IN  IF StartsWith(n, <<"-", "-">>) THEN Raised(self)
        ELSE IF ~StartsWith(n, <<"-">>) THEN Raised(self)
        ELSE IF Len(n) # 2 THEN Raised(self)
        ELSE Returned([self EXCEPT !.short = Append(@, n)])

Flag_long(self, name) ==
    LET n == Strip(name)
    IN  IF ~StartsWith(n, <<"-", "-">>) THEN Raised(self)
        ELSE IF Len(n) = 2 THEN Raised(self)
        ELSE Returned([self EXCEPT !.long = Append(@, n)])

Flag_optional(self) == Returned([self EXCEPT !.required = FALSE])

Flag_parser(self, parser) ==
    IF self.kind # "value" THEN Raised(self)
    ELSE Returned([self EXCEPT !.parser = parser])

Flag_valued(self) == Returned([self EXCEPT !.kind = "value"])

Flag_count(self) == Returned([self EXCEPT !.kind = "count"])

Flag_default(self, val) == Returned([self EXCEPT !.default = val])

\* Flag has no builder that sets _required to True; the attribute is written
\* directly to obtain a required flag
Flag_set_required(self) == [self EXCEPT !.required = TRUE]

----------------------------------------------------------------------------
(* class Param *)

Param_init(name) ==
    LET n == Strip(name)
    IN  IF n = <<>> THEN Raised(NoObj)
        ELSE Returned([type |-> "param", name |-> n, description |-> PyNone,
                       required |-> TRUE,
                       parser |-> "None", default |-> PyNone])

Param_optional(self) == Returned([self EXCEPT !.required = FALSE])

Param_parser(self, parser) == Returned([self EXCEPT !.parser = parser])

Param_default(self, val) == Returned([self EXCEPT !.default = val])

\* Flag.is_optional, Param.is_optional
is_optional(self) == ~self.required

----------------------------------------------------------------------------
(* class Command *)

Command_init(name) ==
    IF Strip(name) = <<>> THEN Raised(NoObj)
    ELSE Returned([type |-> "command", name |-> name, description |-> PyNone,
                   short |-> <<>>,
                   long |-> <<>>, disable_name |-> FALSE,
                   flags |-> <<>>, params |-> <<>>])

Command_short(self, short) ==
    LET n == Strip(short)
    IN  IF StartsWith(n, <<"-", "-">>) THEN Raised(self)
        ELSE IF ~StartsWith(n, <<"-">>) THEN Raised(self)
        ELSE IF Len(n) # 2 THEN Raised(self)
        ELSE Returned([self EXCEPT !.short = Append(@, n)])

Command_long(self, long) ==
    LET n == Strip(long)
    IN  IF ~StartsWith(n, <<"-", "-">>) THEN Raised(self)
        ELSE Returned([self EXCEPT !.long = Append(@, n)])

\* Command.arg looking for the name only among the items of arg's own class
Command_arg_own_class(self, arg) ==
    IF arg.type = "flag"
        THEN IF \E i \in 1..Len(self.flags) : self.flags[i].name = arg.name
                 THEN Raised(self)
             ELSE IF Len(arg.short) + Len(arg.long) = 0 THEN Raised(self)
             ELSE Returned([self EXCEPT !.flags = Append(@, arg)])
    ELSE IF \E i \in 1..Len(self.params) : self.params[i].name = arg.name
        THEN Raised(self)
    ELSE IF /\ ~is_optional(arg)
            /\ Len(self.params) > 0
            /\ is_optional(self.params[Len(self.params)])
        THEN Raised(self)
    ELSE Returned([self EXCEPT !.params = Append(@, arg)])

\* Command.arg comparing a required Param with the first Param, not the last
Command_arg_first_param(self, arg) ==
    IF \E i \in 1..Len(self.flags) : self.flags[i].name = arg.name
        THEN Raised(self)
    ELSE IF \E i \in 1..Len(self.params) : self.params[i].name = arg.name
        THEN Raised(self)
    ELSE IF arg.type = "flag"
        THEN IF Len(arg.short) + Len(arg.long) = 0 THEN Raised(self)
             ELSE Returned([self EXCEPT !.flags = Append(@, arg)])
    ELSE IF /\ ~is_optional(arg)
            /\ Len(self.params) > 0
            /\ is_optional(self.params[1])
        THEN Raised(self)
    ELSE Returned([self EXCEPT !.params = Append(@, arg)])

\* Command.arg without the check of a Flag's aliases
Command_arg_no_alias_check(self, arg) ==
    IF \E i \in 1..Len(self.flags) : self.flags[i].name = arg.name
        THEN Raised(self)
    ELSE IF \E i \in 1..Len(self.params) : self.params[i].name = arg.name
        THEN Raised(self)
    ELSE IF arg.type = "flag"
        THEN Returned([self EXCEPT !.flags = Append(@, arg)])
    ELSE IF /\ ~is_optional(arg)
            /\ Len(self.params) > 0
            /\ is_optional(self.params[Len(self.params)])
        THEN Raised(self)
    ELSE Returned([self EXCEPT !.params = Append(@, arg)])

Command_arg(self, arg) ==
    IF \E i \in 1..Len(self.flags) : self.flags[i].name = arg.name
        THEN Raised(self)
    ELSE IF \E i \in 1..Len(self.params) : self.params[i].name = arg.name
        THEN Raised(self)
    ELSE IF arg.type = "flag"
        THEN IF Len(arg.short) + Len(arg.long) = 0 THEN Raised(self)
             ELSE Returned([self EXCEPT !.flags = Append(@, arg)])
    ELSE IF /\ ~is_optional(arg)
            /\ Len(self.params) > 0
            /\ is_optional(self.params[Len(self.params)])
        THEN Raised(self)
    ELSE Returned([self EXCEPT !.params = Append(@, arg)])

----------------------------------------------------------------------------
(* Inputs of the builder calls *)

NameInputs == {<<"v">>, <<" ", "o">>, <<" ">>}

ShortInputs ==
    {<<"-", "v">>, <<" ", "-", "o">>, <<"-", "-">>, <<"v">>, <<"-">>,
     <<"-", "v", "o">>}

LongInputs ==
    {<<"-", "-", "v", "v">>, <<"-", "-", "a", "=", "b">>, <<"-", "-">>,
     <<" ", "-", "-">>, <<"-", "v">>, <<"v", "v">>}

\* conversion functions a caller attaches: "conv" returns an object for every
\* string, "strict" raises an Exception for the string "u", "intr" raises
\* KeyboardInterrupt for the string "u"
ParserInputs == {"conv", "strict", "intr"}

DefaultInputs == {PyNone, PyStr(<<"d">>)}

\* the parse variables while no parse_args call is being made
ParseIdle ==
    /\ commands = <<>>
    /\ argv = <<>>
    /\ pc = "idle"
    /\ command = NoObj
    /\ idx = 0
    /\ param_idx = 0
    /\ values = <<>>
    /\ required_flags = {}
    /\ arg_value = <<>>
    /\ flag_names = <<>>
    /\ outcome = [kind |-> "none"]
    /\ seen = <<>>
    /\ printed = <<>>
    /\ first = [kind |-> "none"]

Call(op, arg, r) == [op |-> op, arg |-> arg, raised |-> r.raised]

NoCall == [op |-> "none", arg |-> <<>>, raised |-> FALSE]

----------------------------------------------------------------------------
(* SpecFlag: the builder calls on one Flag or one Param object             *)

IsFlag(o) == o.type = "flag"
IsParam(o) == o.type = "param"

InitFlag ==
    /\ item = NoObj
    /\ cmd = NoObj
    /\ last = NoCall
    /\ ParseIdle

NewFlag(name) ==
    /\ item' = Flag_init(name).self
    /\ last' = Call("Flag", name, Flag_init(name))
    /\ UNCHANGED <<cmd, parseVars>>

FlagShort(name) ==
    /\ IsFlag(item)
    /\ Len(item.short) < MaxAliases
    /\ item' = Flag_short(item, name).self
    /\ last' = Call("Flag.short", name, Flag_short(item, name))
    /\ UNCHANGED <<cmd, parseVars>>

FlagLong(name) ==
    /\ IsFlag(item)
    /\ Len(item.long) < MaxAliases
    /\ item' = Flag_long(item, name).self
    /\ last' = Call("Flag.long", name, Flag_long(item, name))
    /\ UNCHANGED <<cmd, parseVars>>

FlagOptional ==
    /\ IsFlag(item)
    /\ item' = Flag_optional(item).self
    /\ last' = Call("Flag.optional", <<>>, Flag_optional(item))
    /\ UNCHANGED <<cmd, parseVars>>

FlagParser(parser) ==
    /\ IsFlag(item)
    /\ item' = Flag_parser(item, parser).self
    /\ last' = Call("Flag.parser", parser, Flag_parser(item, parser))
    /\ UNCHANGED <<cmd, parseVars>>

FlagValued ==
    /\ IsFlag(item)
    /\ item' = Flag_valued(item).self
    /\ last' = Call("Flag.valued", <<>>, Flag_valued(item))
    /\ UNCHANGED <<cmd, parseVars>>

FlagCount ==
    /\ IsFlag(item)
    /\ item' = Flag_count(item).self
    /\ last' = Call("Flag.count", <<>>, Flag_count(item))
    /\ UNCHANGED <<cmd, parseVars>>

FlagDefault(val) ==
    /\ IsFlag(item)
    /\ item' = Flag_default(item, val).self
    /\ last' = Call("Flag.default", val, Flag_default(item, val))
    /\ UNCHANGED <<cmd, parseVars>>

NewParam(name) ==
    /\ item' = Param_init(name).self
    /\ last' = Call("Param", name, Param_init(name))
    /\ UNCHANGED <<cmd, parseVars>>

ParamOptional ==
    /\ IsParam(item)
    /\ item' = Param_optional(item).self
    /\ last' = Call("Param.optional", <<>>, Param_optional(item))
    /\ UNCHANGED <<cmd, parseVars>>

ParamParser(parser) ==
    /\ IsParam(item)
    /\ item' = Param_parser(item, parser).self
    /\ last' = Call("Param.parser", parser, Param_parser(item, parser))
    /\ UNCHANGED <<cmd, parseVars>>

ParamDefault(val) ==
    /\ IsParam(item)
    /\ item' = Param_default(item, val).self
    /\ last' = Call("Param.default", val, Param_default(item, val))
    /\ UNCHANGED <<cmd, parseVars>>

NextFlag ==
    \/ \E name \in NameInputs : NewFlag(name)
    \/ \E name \in ShortInputs : FlagShort(name)
    \/ \E name \in LongInputs : FlagLong(name)
    \/ FlagOptional
    \/ \E parser \in ParserInputs : FlagParser(parser)
    \/ FlagValued
    \/ FlagCount
    \/ \E val \in DefaultInputs : FlagDefault(val)
    \/ \E name \in NameInputs : NewParam(name)
    \/ ParamOptional
    \/ \E parser \in ParserInputs : ParamParser(parser)
    \/ \E val \in DefaultInputs : ParamDefault(val)

SpecFlag == InitFlag /\ [][NextFlag]_vars

----------------------------------------------------------------------------
(* SpecBuild: the builder calls on one Command object.  The Flags and      *)
(* Params handed to arg are objects the Flag and Param builders return.    *)

CommandNameInputs == {<<"R", "u">>, <<" ">>}

CommandShortInputs == {<<"-", "r">>, <<"r">>, <<"-", "-">>, <<"-", "r", "u">>}

CommandLongInputs == {<<"-", "-", "r", "u">>, <<" ", "-", "-">>, <<"-", "r">>}

ItemNames == {<<"a">>, <<"b">>, <<"c">>}

\* the short alias and the long alias the pool's flags of name n declare
ShortOf(n) == <<"-">> \o n
LongOf(n) == <<"-", "-">> \o n \o n

FlagsNamed(n) ==
    LET f == Flag_init(n).self
    IN  {f,
         Flag_short(f, ShortOf(n)).self,
         Flag_valued(Flag_long(f, LongOf(n)).self).self}

ParamsNamed(n) ==
    LET p == Param_init(n).self
    IN  {p, Param_optional(p).self}

ItemPool == UNION {FlagsNamed(n) \cup ParamsNamed(n) : n \in ItemNames}

InitBuild ==
    /\ item = NoObj
    /\ cmd = NoObj
    /\ last = NoCall
    /\ ParseIdle

IsCommand(o) == o.type = "command"

NewCommand(name) ==
    /\ cmd' = Command_init(name).self
    /\ last' = Call("Command", name, Command_init(name))
    /\ UNCHANGED <<item, parseVars>>

CommandShort(short) ==
    /\ IsCommand(cmd)
    /\ Len(cmd.short) < MaxAliases
    /\ cmd' = Command_short(cmd, short).self
    /\ last' = Call("Command.short", short, Command_short(cmd, short))
    /\ UNCHANGED <<item, parseVars>>

CommandLong(long) ==
    /\ IsCommand(cmd)
    /\ Len(cmd.long) < MaxAliases
    /\ cmd' = Command_long(cmd, long).self
    /\ last' = Call("Command.long", long, Command_long(cmd, long))
    /\ UNCHANGED <<item, parseVars>>

CommandArg(arg) ==
    /\ IsCommand(cmd)
    /\ Len(cmd.flags) + Len(cmd.params) < MaxItems
    /\ cmd' = Command_arg(cmd, arg).self
    /\ last' = Call("Command.arg", arg, Command_arg(cmd, arg))
    /\ UNCHANGED <<item, parseVars>>

NextBuild ==
    \/ \E name \in CommandNameInputs : NewCommand(name)
    \/ \E short \in CommandShortInputs : CommandShort(short)
    \/ \E long \in CommandLongInputs : CommandLong(long)
    \/ \E arg \in ItemPool : CommandArg(arg)

SpecBuild == InitBuild /\ [][NextBuild]_vars

----------------------------------------------------------------------------
(* The parser: class _ArgParse, _find_command and parse_args               *)

NoOutcome == [kind |-> "none"]
\* raise ValueError(...): error is the kind of parse error raised at that
\* place, detail what its message names
ValueError(error, detail) == [kind |-> "ValueError", error |-> error, detail |-> detail]
\* a KeyboardInterrupt or InterruptedError re-raised as it is
Interrupt == [kind |-> "KeyboardInterrupt"]
\* return Args(command.name(), parser.values)
Args(name, vals) == [kind |-> "Args", command |-> name, values |-> vals]

\* str(err) of the exception a conversion function raises
ErrText == <<"b", "a", "d">>

\* a conversion function called on the string value: what it returns, or the
\* exception it raises ("strict" an Exception, "intr" a KeyboardInterrupt,
\* "eintr" an InterruptedError, each for the string "u")
Convert(parser, value) ==
    CASE parser = "conv" -> [kind |-> "ok", val |-> PyConv("conv", value)]
      [] parser = "strict" ->
            IF value = <<"u">> THEN [kind |-> "Exception", val |-> PyStr(ErrText)]
            ELSE [kind |-> "ok", val |-> PyConv("strict", value)]
      [] parser = "intr" ->
            IF value = <<"u">> THEN [kind |-> "KeyboardInterrupt", val |-> PyNone]
            ELSE [kind |-> "ok", val |-> PyConv("intr", value)]
      [] parser = "eintr" ->
            IF value = <<"u">> THEN [kind |-> "InterruptedError", val |-> PyNone]
            ELSE [kind |-> "ok", val |-> PyConv("eintr", value)]

\* the first except clause naming KeyboardInterrupt only
is_interrupt_keyboard_only(r) == r.kind = "KeyboardInterrupt"

\* except (InterruptedError, KeyboardInterrupt): does the clause take what the
\* conversion function raised
is_interrupt(r) == r.kind \in {"InterruptedError", "KeyboardInterrupt"}

\* raise err: the exception the conversion function raised, as it is
Reraise(r) ==
    IF r.kind = "KeyboardInterrupt" THEN Interrupt ELSE [kind |-> r.kind]

\* except Exception as err: raise ValueError(f"... {what} -- {err}")
InvalidArgument(what, r) ==
    ValueError("InvalidArgument", what \o <<" ", "-", "-", " ">> \o r.val.chars)

\* one entry of the history seen: the Flag or Param of that name occurred in
\* that form and was handed the string raw (empty when it takes none)
Occ(name, form, raw) == [name |-> name, form |-> form, raw |-> raw]

\* the first of the indices hits of a list scanned in order, 0 when there is none
FirstIndex(hits) ==
    IF hits = {} THEN 0 ELSE CHOOSE i \in hits : \A j \in hits : i <= j

Contains(s, x) == \E i \in 1..Len(s) : s[i] = x

\* _find_command comparing the name as it is written
find_command_exact_name(cmds, command_name) ==
    LET Hit(c) ==
            \/ ~c.disable_name /\ command_name = c.name
            \/ Contains(c.short, command_name)
            \/ Contains(c.long, command_name)
    IN  FirstIndex({k \in 1..Len(cmds) : Hit(cmds[k])})

\* the index in commands of the Command _find_command returns, 0 for None
find_command(cmds, command_name) ==
    LET Hit(c) ==
            \/ ~c.disable_name /\ Lower(command_name) = Lower(c.name)
            \/ Contains(c.short, command_name)
            \/ Contains(c.long, command_name)
    IN  FirstIndex({k \in 1..Len(cmds) : Hit(cmds[k])})

\* the index in command.flags() of the Flag _find_long_flag returns, 0 for None
find_long_flag(c, val) ==
    LET Hit(f) == Contains(f.long, val)
    IN  FirstIndex({k \in 1..Len(c.flags) : Hit(c.flags[k])})

\* the index in command.flags() of the Flag _find_short_flag returns, 0 for None
find_short_flag(c, flag_name) ==
    LET Hit(f) == Contains(f.short, flag_name)
    IN  FirstIndex({k \in 1..Len(c.flags) : Hit(c.flags[k])})

\* required-value tracking done for Value flags only
required_after_value_only(flag, required) ==
    IF flag.kind = "value" THEN required \ {flag.name} ELSE required

\* required-value tracking: the working set after flag was found
required_after(flag, required) == required \ {flag.name}

HasAttr(vals, name) == name \in DOMAIN vals

SetAttr(vals, name, v) == (name :> v) @@ vals

\* a Value flag's value put in front of the list
store_value_in_front(vals, flag, value) ==
    IF HasAttr(vals, flag.name)
        THEN [vals EXCEPT ![flag.name] = PyList(<<value>> \o @.items)]
    ELSE SetAttr(vals, flag.name, PyList(<<value>>))

\* a Value flag's value: appended to the list under the flag's name
store_value(vals, flag, value) ==
    IF HasAttr(vals, flag.name)
        THEN [vals EXCEPT ![flag.name] = PyList(Append(@.items, value))]
    ELSE SetAttr(vals, flag.name, PyList(<<value>>))

\* a Count flag: the counter set to 1 at every occurrence
store_count_from_zero(vals, flag) == SetAttr(vals, flag.name, PyInt(1))

\* a Count flag: getattr(values, name, 0) + 1
store_count(vals, flag) ==
    SetAttr(vals, flag.name,
            PyInt((IF HasAttr(vals, flag.name) THEN vals[flag.name].num ELSE 0) + 1))

\* the parser fields one step reads and writes
Self == [command |-> command, argv |-> argv, idx |-> idx, values |-> values,
         required_flags |-> required_flags, seen |-> seen]

\* argv[i], i counted from 0 as in the code
At(a, i) == a[i + 1]

\* the next token read as a value with the cursor left on it
take_next_no_advance(self) == [value |-> At(self.argv, self.idx), idx |-> self.idx]

\* value = self.argv[self.idx]; self.idx += 1
take_next(self) == [value |-> At(self.argv, self.idx), idx |-> self.idx + 1]

\* the statement ended without an exception
Normal(self) == [self |-> self, exc |-> NoOutcome]

\* the exception caught and dropped, the parse going on
Raise_swallowed(self, exc) == Normal(self)

\* raise exc: the exception leaves parse_args
Raise(self, exc) == [self |-> self, exc |-> exc]

\* a Presence flag met again and let through
is_duplicate_unchecked(vals, flag) == FALSE

\* hasattr(self.values, flag.name()) for a Presence flag
is_duplicate(vals, flag) == HasAttr(vals, flag.name)

\* _ArgParse._parse_long
parse_long(self, token) ==
    LET parts == Split1(token)
        flag_name == IF Len(parts) = 1 THEN token ELSE parts[1]
        k == find_long_flag(self.command, flag_name)
    IN  IF k = 0 THEN Raise(self, ValueError("UnknownFlag", flag_name))
        ELSE
        LET flag == self.command.flags[k]
            form == IF Len(parts) = 2 THEN "long=" ELSE "long"
            raw == IF flag.kind # "value" THEN <<>>
                   ELSE IF Len(parts) = 2 THEN parts[2]
                   ELSE IF self.idx < Len(self.argv) THEN take_next(self).value
                   ELSE <<>>
            s1 == [self EXCEPT
                      !.required_flags = required_after(flag, @),
                      !.seen = Append(@, Occ(flag.name, form, raw))]
        IN  IF Len(parts) = 2 /\ flag.kind # "value"
                THEN Raise(s1, ValueError("ValueNotAccepted", flag_name))
            ELSE IF flag.kind = "value"
                THEN IF Len(parts) # 2 /\ s1.idx >= Len(s1.argv)
                         THEN Raise(s1, ValueError("MissingValue", flag_name))
                     ELSE
                        LET s2 == [s1 EXCEPT
                                      !.idx = IF Len(parts) # 2 THEN take_next(s1).idx
                                              ELSE @]
                            r == IF flag.parser = "None"
                                    THEN [kind |-> "ok", val |-> PyStr(raw)]
                                 ELSE Convert(flag.parser, raw)
                        IN  IF is_interrupt(r) THEN Raise(s2, Reraise(r))
                            ELSE IF r.kind # "ok"
                                THEN Raise(s2, InvalidArgument(flag_name, r))
                            ELSE Normal([s2 EXCEPT
                                            !.values = store_value(@, flag, r.val)])
            ELSE IF flag.kind = "count"
                THEN Normal([s1 EXCEPT !.values = store_count(@, flag)])
            ELSE IF is_duplicate(s1.values, flag)
                THEN Raise(s1, ValueError("DuplicateFlag", flag.name))
            ELSE Normal([s1 EXCEPT !.values = SetAttr(@, flag.name, PyTrue)])

\* _ArgParse._parse_short: the list flag_names of a token
cluster_names(token) == [i \in 1..(Len(token) - 1) |-> <<"-", token[i + 1]>>]

\* _ArgParse._parse_short: the body of the loop for one flag_name
parse_short_flag(self, flag_name) ==
    LET k == find_short_flag(self.command, flag_name)
    IN  IF k = 0 THEN Raise(self, ValueError("UnknownFlag", flag_name))
        ELSE
        LET flag == self.command.flags[k]
            raw == IF flag.kind = "value" /\ self.idx < Len(self.argv)
                      THEN take_next(self).value
                   ELSE <<>>
            s1 == [self EXCEPT
                      !.required_flags = required_after(flag, @),
                      !.seen = Append(@, Occ(flag.name, "short", raw))]
        IN  IF flag.kind = "value"
                THEN IF s1.idx >= Len(s1.argv)
                         THEN Raise(s1, ValueError("MissingValue", flag_name))
                     ELSE
                        LET s2 == [s1 EXCEPT !.idx = take_next(s1).idx]
                            r == IF flag.parser = "None"
                                    THEN [kind |-> "ok", val |-> PyStr(raw)]
                                 ELSE Convert(flag.parser, raw)
                        IN  IF is_interrupt(r) THEN Raise(s2, Reraise(r))
                            ELSE IF r.kind # "ok"
                                THEN Raise(s2, InvalidArgument(flag_name, r))
                            ELSE Normal([s2 EXCEPT
                                            !.values = store_value(@, flag, r.val)])
            ELSE IF flag.kind = "count"
                THEN Normal([s1 EXCEPT !.values = store_count(@, flag)])
            ELSE IF is_duplicate(s1.values, flag)
                THEN Raise(s1, ValueError("DuplicateFlag", flag_name))
            ELSE Normal([s1 EXCEPT !.values = SetAttr(@, flag.name, PyTrue)])

\* _parse_short leaving its loop once a Value flag took its value
names_left_none_after_value(names, flag) ==
    IF flag.kind = "value" THEN <<>> ELSE Tail(names)

\* _ArgParse._parse_short: the flag names left to visit after one was handled
names_left(names, flag) == Tail(names)

\* the next Param taken off the front of the Command's own param list
parse_positional_pop(self, pidx, token) ==
    IF self.command.params = <<>>
        THEN Raise(self, ValueError("UnexpectedPositional", token))
    ELSE
        LET param == Head(self.command.params)
            s1 == [self EXCEPT !.seen = Append(@, Occ(param.name, "positional", token)),
                               !.command.params = Tail(@)]
            r == IF param.parser = "None"
                    THEN [kind |-> "ok", val |-> PyStr(token)]
                 ELSE Convert(param.parser, token)
        IN  IF is_interrupt(r) THEN Raise(s1, Reraise(r))
            ELSE IF r.kind # "ok"
                THEN Raise(s1, InvalidArgument(token, r))
            ELSE Normal([s1 EXCEPT !.values = SetAttr(@, param.name, r.val)])

\* the Param chosen by the place of the token among the tokens, not by the
\* count of positionals
parse_positional_by_cursor(self, pidx, token) ==
    IF self.idx - 2 >= Len(self.command.params)
        THEN Raise(self, ValueError("UnexpectedPositional", token))
    ELSE
        LET param == self.command.params[self.idx - 1]
            s1 == [self EXCEPT !.seen = Append(@, Occ(param.name, "positional", token))]
            r == IF param.parser = "None"
                    THEN [kind |-> "ok", val |-> PyStr(token)]
                 ELSE Convert(param.parser, token)
        IN  IF is_interrupt(r) THEN Raise(s1, Reraise(r))
            ELSE IF r.kind # "ok"
                THEN Raise(s1, InvalidArgument(token, r))
            ELSE Normal([s1 EXCEPT !.values = SetAttr(@, param.name, r.val)])

\* parse_args: a token that starts with no dash
parse_positional(self, pidx, token) ==
    IF pidx >= Len(self.command.params)
        THEN Raise(self, ValueError("UnexpectedPositional", token))
    ELSE
        LET param == self.command.params[pidx + 1]
            s1 == [self EXCEPT !.seen = Append(@, Occ(param.name, "positional", token))]
            r == IF param.parser = "None"
                    THEN [kind |-> "ok", val |-> PyStr(token)]
                 ELSE Convert(param.parser, token)
        IN  IF is_interrupt(r) THEN Raise(s1, Reraise(r))
            ELSE IF r.kind # "ok"
                THEN Raise(s1, InvalidArgument(token, r))
            ELSE Normal([s1 EXCEPT !.values = SetAttr(@, param.name, r.val)])

RECURSIVE default_items(_, _)
\* default-values over a list of Params or of Flags
default_items(vals, items) ==
    IF items = <<>> THEN vals
    ELSE LET x == Head(items)
             v1 == IF is_optional(x) /\ ~HasAttr(vals, x.name)
                      THEN SetAttr(vals, x.name, x.default)
                   ELSE vals
         IN  default_items(v1, Tail(items))

\* default-values stored for the Params only
store_defaults_params_only(c, vals) == default_items(vals, c.params)

\* parse_args: the default-values part
store_defaults(c, vals) == default_items(default_items(vals, c.params), c.flags)

\* the required Flags checked before the required Param
finalize_flags_first(self, pidx) ==
    IF Cardinality(self.required_flags) > 0
        THEN ValueError("MissingRequiredFlags", self.required_flags)
    ELSE IF pidx < Len(self.command.params) /\ ~is_optional(self.command.params[pidx + 1])
        THEN ValueError("MissingRequiredPositional", self.command.params[pidx + 1].name)
    ELSE Args(self.command.name, store_defaults(self.command, self.values))

\* parse_args after the scanning loop: what the call gives its caller
finalize(self, pidx) ==
    IF pidx < Len(self.command.params) /\ ~is_optional(self.command.params[pidx + 1])
        THEN ValueError("MissingRequiredPositional", self.command.params[pidx + 1].name)
    ELSE IF Cardinality(self.required_flags) > 0
        THEN ValueError("MissingRequiredFlags", self.required_flags)
    ELSE Args(self.command.name, store_defaults(self.command, self.values))

----------------------------------------------------------------------------
(* SpecParse: one parse_args call.  The commands are built with the        *)
(* builders; each list of commands comes with the tokens argv is made of.  *)

\* Command has no builder that sets _disable_name; the attribute is written
\* directly to obtain a Command matched by its aliases only
Command_set_disable_name(self) == [self EXCEPT !.disable_name = TRUE]

FlagV ==
    Flag_count(Flag_long(Flag_short(Flag_init(<<"v">>).self,
        <<"-", "v">>).self, <<"-", "-", "v", "v">>).self).self

FlagO ==
    Flag_valued(Flag_long(Flag_short(Flag_init(<<"o">>).self,
        <<"-", "o">>).self, <<"-", "-", "o", "o">>).self).self

FlagP ==
    Flag_long(Flag_short(Flag_short(Flag_init(<<"p">>).self,
        <<"-", "p">>).self, <<"-", "q">>).self, <<"-", "-", "p", "p">>).self

FlagN ==
    Flag_long(Flag_short(Flag_init(<<"n">>).self,
        <<"-", "n">>).self, <<"-", "-", "n", "n">>).self

ParamX == Param_init(<<"x">>).self

ParamY == Param_default(Param_optional(Param_init(<<"y">>).self).self, PyStr(<<"d">>)).self

ParamZ == Param_parser(Param_optional(Param_init(<<"z">>).self).self, "conv").self

FlagI ==
    Flag_valued(Flag_long(Flag_short(Flag_init(<<"i">>).self,
        <<"-", "i">>).self, <<"-", "-", "i", "i">>).self).self

FlagS ==
    Flag_valued(Flag_long(Flag_short(Flag_init(<<"s">>).self,
        <<"-", "s">>).self, <<"-", "-", "s", "s">>).self).self

RECURSIVE WithArgs(_, _)
\* c.arg(items[1]).arg(items[2]) ...
WithArgs(c, items) ==
    IF items = <<>> THEN c
    ELSE WithArgs(Command_arg(c, Head(items)).self, Tail(items))

CommandRu == Command_init(<<"R", "u">>).self

\* Count and Value flags, a required and an optional Param
CommandsA == <<WithArgs(CommandRu, <<FlagV, FlagO, ParamX, ParamY>>)>>

\* three required Flags of the three kinds, one with a conversion function
\* that can fail, and a required Param
CommandsB ==
    <<WithArgs(CommandRu,
        <<Flag_set_required(FlagV),
          Flag_set_required(Flag_parser(FlagO, "strict").self),
          Flag_set_required(FlagN),
          ParamX>>)>>

\* a Presence flag with two short aliases, a Value flag with a conversion
\* function and a default, optional Params only
CommandsD ==
    <<WithArgs(CommandRu,
        <<FlagP,
          Flag_default(Flag_parser(FlagO, "conv").self, PyStr(<<"d">>)).self,
          ParamY, ParamZ>>)>>

\* Value flags and optional Params whose conversion functions raise a
\* KeyboardInterrupt, an InterruptedError, an Exception
CommandsE ==
    <<WithArgs(CommandRu,
        <<Flag_parser(FlagO, "intr").self,
          Flag_parser(FlagI, "eintr").self,
          Flag_parser(FlagS, "strict").self,
          Param_parser(Param_optional(ParamX).self, "intr").self,
          Param_parser(Param_optional(Param_init(<<"y">>).self).self, "eintr").self,
          Param_parser(Param_optional(Param_init(<<"z">>).self).self, "strict").self>>)>>

\* a Presence flag whose long alias, accepted by Flag.long, holds a "="
FlagA ==
    Flag_long(Flag_short(Flag_init(<<"a">>).self,
        <<"-", "a">>).self, <<"-", "-", "a", "=", "b">>).self

CommandsF == <<WithArgs(CommandRu, <<FlagA, FlagN>>)>>

\* three Commands for the lookup: the first matched by its aliases only, the
\* second with the first one's name in another case, the third declaring a
\* short alias of the first
CommandsC ==
    <<Command_set_disable_name(
          Command_long(Command_short(CommandRu, <<"-", "r">>).self,
                       <<"-", "-", "r", "u">>).self),
      Command_init(<<"r", "u">>).self,
      Command_long(Command_short(Command_init(<<"u">>).self, <<"-", "r">>).self,
                   <<"-", "-", "u">>).self>>

TokensA ==
    {<<"-", "v", "o">>, <<"-", "o", "v">>, <<"-", "o">>, <<"-", "-", "o", "o">>,
     <<"-", "-", "o", "o", "=", "t">>, <<"t">>, <<"u">>, <<"-", "-", "v", "v">>,
     <<"-", "v", "v">>}

TokensB ==
    {<<"-", "v">>, <<"-", "o">>, <<"-", "-", "o", "o", "=", "t">>, <<"-", "n">>,
     <<"-", "-", "n", "n">>, <<"-", "v", "n">>, <<"t">>, <<"u">>}

TokensD ==
    {<<"-", "p">>, <<"-", "q">>, <<"-", "-", "p", "p">>, <<"-", "p", "o">>,
     <<"-", "-", "o", "o", "=", "u">>, <<"t">>, <<"-">>, <<"-", "-", "p", "p", "=", "t">>,
     <<"-", "x">>, <<"-", "-", "x">>, <<"-", "p", "q">>}

TokensE ==
    {<<"-", "o">>, <<"-", "-", "o", "o", "=", "u">>, <<"-", "i">>,
     <<"-", "-", "i", "i", "=", "u">>, <<"-", "s">>, <<"-", "-", "s", "s", "=", "u">>,
     <<"t">>, <<"u">>}

TokensF == {<<"-", "-", "a", "=", "b">>, <<"-", "a">>, <<"-", "-", "n", "n">>}

FirstTokensC ==
    {<<"r", "u">>, <<"R", "U">>, <<"-", "r">>, <<"-", "R">>, <<"-", "-", "r", "u">>,
     <<"-", "-", "r">>, <<"-", "-", "R", "U">>, <<"u">>, <<"U">>, <<"r">>,
     <<"-", "-", "u">>}

SeqsUpTo(S, n) == UNION {[1..k -> S] : k \in 0..n}

InitParse ==
    /\ item = NoObj
    /\ cmd = NoObj
    /\ last = NoCall
    /\ \/ /\ commands = CommandsA
          /\ \E rest \in SeqsUpTo(TokensA, MaxArgs) : argv = <<<<"r", "u">>>> \o rest
       \/ /\ commands = CommandsB
          /\ \E rest \in SeqsUpTo(TokensB, MaxArgs) : argv = <<<<"R", "U">>>> \o rest
       \/ /\ commands = CommandsD
          /\ \E rest \in SeqsUpTo(TokensD, MaxArgs) : argv = <<<<"R", "u">>>> \o rest
       \/ /\ commands = CommandsE
          /\ \E rest \in SeqsUpTo(TokensE, MaxArgs) : argv = <<<<"r", "U">>>> \o rest
       \/ /\ commands = CommandsF
          /\ \E rest \in SeqsUpTo(TokensF, MaxArgs) : argv = <<<<"r", "u">>>> \o rest
       \/ /\ commands = CommandsC
          /\ \/ argv = <<>>
             \/ \E token \in FirstTokensC : argv = <<token>>
    /\ pc = "idle"
    /\ command = NoObj
    /\ idx = 0
    /\ param_idx = 0
    /\ values = <<>>
    /\ required_flags = {}
    /\ arg_value = <<>>
    /\ flag_names = <<>>
    /\ outcome = NoOutcome
    /\ seen = <<>>
    /\ printed = <<>>
    /\ first = NoOutcome

\* parse_args up to the scanning loop
ParseArgs ==
    /\ pc = "idle"
    /\ IF Len(argv) = 0
           THEN /\ outcome' = ValueError("NoCommand", <<>>)
                /\ pc' = "done"
                /\ UNCHANGED <<command, idx, param_idx, values, required_flags>>
       ELSE IF find_command(commands, argv[1]) = 0
           THEN /\ outcome' = ValueError("UnknownCommand", argv[1])
                /\ pc' = "done"
                /\ UNCHANGED <<command, idx, param_idx, values, required_flags>>
       ELSE /\ command' = commands[find_command(commands, argv[1])]
            /\ values' = <<>>
            /\ param_idx' = 0
            /\ idx' = 1
            /\ required_flags' =
                   {command'.flags[i].name : i \in
                       {j \in 1..Len(command'.flags) : command'.flags[j].required}}
            /\ pc' = "loop"
            /\ UNCHANGED outcome
    /\ UNCHANGED <<commands, argv, arg_value, flag_names, seen, first, printed, buildVars>>

\* the scanning loop going round without moving the cursor
fetch_no_advance(self) == self

\* arg_value = argv[parser.idx]; parser.idx += 1: the cursor after the fetch
fetch(self) == [self EXCEPT !.idx = @ + 1]

\* the parser fields after a step that ended as r; parser.command is the
\* selected Command object of commands itself
Step(r) ==
    /\ command' = r.self.command
    /\ commands' = [commands EXCEPT ![find_command(commands, argv[1])] = r.self.command]
    /\ idx' = r.self.idx
    /\ values' = r.self.values
    /\ required_flags' = r.self.required_flags
    /\ seen' = r.self.seen
    /\ outcome' = r.exc

\* one iteration of the scanning loop on a token that starts with "--"
LoopLong ==
    /\ pc = "loop"
    /\ idx < Len(argv)
    /\ StartsWith(At(argv, idx), <<"-", "-">>)
    /\ arg_value' = At(argv, idx)
    /\ LET r == parse_long(fetch(Self), At(argv, idx))
       IN  /\ Step(r)
           /\ pc' = IF r.exc = NoOutcome THEN "loop" ELSE "done"
    /\ UNCHANGED <<argv, param_idx, flag_names, first, printed, buildVars>>

\* one iteration of the scanning loop on a token that starts with one "-":
\* _parse_short up to its loop
LoopShort ==
    /\ pc = "loop"
    /\ idx < Len(argv)
    /\ ~StartsWith(At(argv, idx), <<"-", "-">>)
    /\ StartsWith(At(argv, idx), <<"-">>)
    /\ arg_value' = At(argv, idx)
    /\ idx' = fetch(Self).idx
    /\ flag_names' = cluster_names(At(argv, idx))
    /\ IF Len(flag_names') = 0
           THEN /\ outcome' = ValueError("InvalidArgument", At(argv, idx))
                /\ pc' = "done"
       ELSE /\ pc' = "short"
            /\ UNCHANGED outcome
    /\ UNCHANGED <<commands, argv, command, param_idx, values, required_flags,
                   seen, first, printed, buildVars>>

\* _parse_short: one iteration of its loop; after the last one the scanning
\* loop goes on
ShortFlag ==
    /\ pc = "short"
    /\ LET r == parse_short_flag(Self, Head(flag_names))
           k == find_short_flag(command, Head(flag_names))
       IN  /\ Step(r)
           /\ IF r.exc # NoOutcome
                  THEN /\ pc' = "done"
                       /\ UNCHANGED flag_names
              ELSE /\ flag_names' = names_left(flag_names, command.flags[k])
                   /\ pc' = IF flag_names' = <<>> THEN "loop" ELSE "short"
    /\ UNCHANGED <<argv, param_idx, arg_value, first, printed, buildVars>>

\* one iteration of the scanning loop on a token that starts with no dash
LoopPositional ==
    /\ pc = "loop"
    /\ idx < Len(argv)
    /\ ~StartsWith(At(argv, idx), <<"-">>)
    /\ arg_value' = At(argv, idx)
    /\ LET r == parse_positional(fetch(Self), param_idx, At(argv, idx))
       IN  /\ Step(r)
           /\ param_idx' = IF r.exc = ValueError("UnexpectedPositional", At(argv, idx))
                              THEN param_idx ELSE param_idx + 1
           /\ pc' = IF r.exc = NoOutcome THEN "loop" ELSE "done"
    /\ UNCHANGED <<argv, flag_names, first, printed, buildVars>>

\* parse_args after the scanning loop
Finalize ==
    /\ pc = "loop"
    /\ idx >= Len(argv)
    /\ outcome' = finalize(Self, param_idx)
    /\ pc' = "done"
    /\ UNCHANGED <<commands, argv, command, idx, param_idx, values, required_flags,
                   arg_value, flag_names, seen, first, printed, buildVars>>

\* the caller, its call over, calls parse_args once more with the same
\* commands and the same argv
ParseAgain ==
    /\ pc = "done"
    /\ first' = outcome
    /\ pc' = "idle"
    /\ command' = NoObj
    /\ idx' = 0
    /\ param_idx' = 0
    /\ values' = <<>>
    /\ required_flags' = {}
    /\ arg_value' = <<>>
    /\ flag_names' = <<>>
    /\ outcome' = NoOutcome
    /\ seen' = <<>>
    /\ UNCHANGED <<commands, argv, printed, buildVars>>

NextParse ==
    \/ ParseArgs
    \/ LoopLong
    \/ LoopShort
    \/ ShortFlag
    \/ LoopPositional
    \/ Finalize
    \/ ParseAgain

SpecParse == InitParse /\ [][NextParse]_vars

\* one call of parse_args runs on to its end: every enabled step of it is
\* taken (the caller need not call again)
ParseStep ==
    \/ ParseArgs
    \/ LoopLong
    \/ LoopShort
    \/ ShortFlag
    \/ LoopPositional
    \/ Finalize

\* the calls whose tokens are a cluster with a Value flag, a long Value flag
\* that needs the next token, a positional and a Count flag
LiveTokens ==
    {<<"-", "o", "v">>, <<"-", "-", "o", "o">>, <<"t">>, <<"-", "-", "v", "v">>}

InitLive ==
    /\ InitParse
    /\ commands = CommandsA
    /\ \A i \in 2..Len(argv) : argv[i] \in LiveTokens

SpecParseLive == InitLive /\ [][NextParse]_vars /\ WF_vars(ParseStep)

----------------------------------------------------------------------------
(* print_help: the text it writes, one line for each print call *)

\* the description argument of a constructor
described(self, description) == [self EXCEPT !.description = description]

DigitChars == <<"0", "1", "2", "3", "4", "5", "6", "7", "8", "9">>

\* {v!r} in an f-string, for the values the model has (ints below 10)
Repr(v) ==
    CASE v.tag = "str" -> <<"'">> \o v.chars \o <<"'">>
      [] v.tag = "int" -> <<DigitChars[v.num + 1]>>
      [] v.tag = "None" -> <<"N", "o", "n", "e">>
      [] v.tag = "True" -> <<"T", "r", "u", "e">>
      [] OTHER -> v.chars

\* what print(v) writes for a description
Str(v) == IF v.tag = "None" THEN <<"N", "o", "n", "e">> ELSE v.chars

\* v or ''
OrEmpty(v) == IF Truthy(v) THEN v.chars ELSE <<>>

RECURSIVE Join(_, _)
\* sep.join(parts)
Join(sep, parts) ==
    IF parts = <<>> THEN <<>>
    ELSE IF Len(parts) = 1 THEN parts[1]
    ELSE parts[1] \o sep \o Join(sep, Tail(parts))

\* {s:<{width}}: s, then spaces up to width
LJust(s, width) == s \o [i \in 1..(width - Len(s)) |-> " "]

\* max_width taken from the last label alone
max_width_last(labels) == IF labels = <<>> THEN 0 ELSE Len(labels[Len(labels)])

\* max_width = 0, then max(max_width, len(item)) for each label
max_width(labels) ==
    IF labels = <<>> THEN 0
    ELSE CHOOSE w \in {Len(labels[i]) : i \in 1..Len(labels)} :
            \A i \in 1..Len(labels) : Len(labels[i]) <= w

\* f"<{item}>" for a required item, f"[{item}]" for an optional one
bracketed(x, text) ==
    IF is_optional(x) THEN <<"[">> \o text \o <<"]">> ELSE <<"<">> \o text \o <<">">>

\* the labels of the Arguments block (and the usage items of the Params)
param_label(param) == bracketed(param, param.name)

\* the labels of the Flags block
flag_label(flag) == bracketed(flag, Join(<<",", " ">>, flag.short \o flag.long))

\* the usage item of a Flag
flag_usage(flag) ==
    bracketed(flag, Join(<<"|">>, flag.short \o flag.long)
                    \o (IF flag.kind = "value" THEN <<" ", ".", ".", ".">> ELSE <<>>))

\* the labels of the command list
command_label(c) ==
    Join(<<",", " ">>, (IF c.disable_name THEN <<>> ELSE <<c.name>>) \o c.short \o c.long)

\* the default column of a line of the Arguments block
param_default_text(default) ==
    IF Truthy(default) THEN <<"(", "d", "e", "f", "a", "u", "l", "t", " ">> \o Repr(default) \o <<")">> ELSE <<>>

\* the default column of a line of the Flags block: the string has no f
\* prefix, its braces are written as they are
flag_default_text(default) ==
    IF Truthy(default) THEN <<"(", "d", "e", "f", "a", "u", "l", "t", " ", "{", "d", "e", "f", "a", "u", "l", "t", "!", "r", "}", ")">> ELSE <<>>

\* f"  {item:<{max_width}} {description or ''} {default}"
item_line(label, width, description, default) ==
    <<" ", " ">> \o LJust(label, width) \o <<" ">> \o OrEmpty(description)
        \o <<" ">> \o default

\* f"  {cmd_name:<{max_width}} {cmd.description() or ''}"
command_line(label, width, description) ==
    <<" ", " ">> \o LJust(label, width) \o <<" ">> \o OrEmpty(description)

\* the lines up to the command lookup
header_lines(name, description) == <<<<>>, name \o <<" ", "-", " ">> \o description, <<>>>>

\* the lines from Usage to the description of the Command
usage_lines(name, c, token) ==
    LET usage_items == [i \in 1..Len(c.params) |-> param_label(c.params[i])]
                       \o [i \in 1..Len(c.flags) |-> flag_usage(c.flags[i])]
    IN  <<<<"U", "s", "a", "g", "e", ":", " ">> \o name \o <<" ">> \o token \o <<" ">> \o Join(<<" ">>, usage_items),
          <<>>, Str(c.description), <<>>>>

\* the Arguments block
arguments_lines(c) ==
    LET items == [i \in 1..Len(c.params) |-> param_label(c.params[i])]
    IN  <<<<"A", "r", "g", "u", "m", "e", "n", "t", "s", ":">>>>
        \o [i \in 1..Len(c.params) |->
              item_line(items[i], max_width(items), c.params[i].description,
                        param_default_text(c.params[i].default))]

\* the Flags block
flags_lines(c) ==
    LET flags == [i \in 1..Len(c.flags) |-> flag_label(c.flags[i])]
    IN  <<<<>>, <<"F", "l", "a", "g", "s", ":">>>>
        \o [i \in 1..Len(c.flags) |->
              item_line(flags[i], max_width(flags), c.flags[i].description,
                        flag_default_text(c.flags[i].default))]

\* the lines printed when no Command was found
list_lines(name, cmds) ==
    LET names == [i \in 1..Len(cmds) |-> command_label(cmds[i])]
    IN  <<<<"U", "s", "a", "g", "e", ":", " ">> \o name \o <<" ", "<", "c", "o", "m", "m", "a", "n", "d", ">", " ", "[", "a", "r", "g", "s", ".", ".", ".", "]", " ", "[", "f", "l", "a", "g", "s", ".", ".", ".", "]">>, <<>>, <<"C", "o", "m", "m", "a", "n", "d", "s", ":">>>>
        \o [i \in 1..Len(cmds) |->
              command_line(names[i], max_width(names), cmds[i].description)]

----------------------------------------------------------------------------
(* SpecHelp: print_help on a Command with three Params and two Flags whose *)
(* names, aliases, descriptions and defaults vary, and on the Commands of  *)
(* the lookup, block by block                                              *)

Rep(c, k) == [i \in 1..k |-> c]

\* the name and description arguments of print_help
HelpName == <<"i">>
HelpText == <<"I">>

HelpDefaults == {PyNone, PyStr(<<>>), PyStr(<<"d">>), PyInt(0), PyInt(5)}

\* a required Param with a description, an optional one with a default, an
\* optional one; a Count flag with a description and a default, a required
\* Value flag with a default
HelpCommand(a, b, c, long, dv, do, dy) ==
    WithArgs(described(CommandRu, PyStr(<<"C">>)),
        <<described(Param_init(Rep("x", a)).self, PyStr(<<"X">>)),
          Param_default(Param_optional(Param_init(Rep("y", b)).self).self, dy).self,
          Param_optional(Param_init(Rep("z", c)).self).self,
          Flag_default(described(IF long THEN FlagV
                                 ELSE Flag_count(Flag_short(Flag_init(<<"v">>).self,
                                                            <<"-", "v">>).self).self,
                                 PyStr(<<"V">>)), dv).self,
          Flag_default(Flag_set_required(
              Flag_valued(Flag_short(Flag_init(<<"o">>).self, <<"-", "o">>).self).self),
              do).self>>)

HelpArgv == {<<>>, <<<<"r", "u">>>>, <<<<"z">>>>, <<<<"-", "-", "u">>>>}

\* every parse_args and builder variable that print_help has no part in
helpFrame == <<item, cmd, last, commands, argv, idx, param_idx, values, required_flags,
               arg_value, flag_names, outcome, seen, first>>

InitHelp ==
    /\ item = NoObj
    /\ cmd = NoObj
    /\ last = NoCall
    /\ \E a \in 1..MaxNameLen, b \in 1..MaxNameLen, c \in 1..MaxNameLen,
          long \in BOOLEAN, dv \in HelpDefaults, do \in {PyNone, PyStr(<<"d">>)},
          dy \in {PyNone, PyStr(<<"d">>)} :
          commands = <<HelpCommand(a, b, c, long, dv, do, dy)>> \o CommandsC
    /\ argv \in HelpArgv
    /\ pc = "help"
    /\ command = NoObj
    /\ idx = 0
    /\ param_idx = 0
    /\ values = <<>>
    /\ required_flags = {}
    /\ arg_value = <<>>
    /\ flag_names = <<>>
    /\ outcome = NoOutcome
    /\ seen = <<>>
    /\ printed = <<>>
    /\ first = NoOutcome

\* print_help up to the command lookup
PrintHeader ==
    /\ pc = "help"
    /\ printed' = header_lines(HelpName, HelpText)
    /\ command' = IF Len(argv) > 0 /\ find_command(commands, argv[1]) # 0
                      THEN commands[find_command(commands, argv[1])]
                  ELSE NoObj
    /\ pc' = "usage"
    /\ UNCHANGED helpFrame

\* a Command was found: the Usage line and the Command's description
PrintUsage ==
    /\ pc = "usage"
    /\ command # NoObj
    /\ printed' = printed \o usage_lines(HelpName, command, argv[1])
    /\ pc' = "arguments"
    /\ UNCHANGED <<command, helpFrame>>

PrintArguments ==
    /\ pc = "arguments"
    /\ printed' = printed \o arguments_lines(command)
    /\ pc' = "flags"
    /\ UNCHANGED <<command, helpFrame>>

PrintFlags ==
    /\ pc = "flags"
    /\ printed' = printed \o flags_lines(command)
    /\ pc' = "end"
    /\ UNCHANGED <<command, helpFrame>>

\* no Command was found: the generic Usage line and the command list
PrintCommands ==
    /\ pc = "usage"
    /\ command = NoObj
    /\ printed' = printed \o list_lines(HelpName, commands)
    /\ pc' = "end"
    /\ UNCHANGED <<command, helpFrame>>

\* the last print
PrintEnd ==
    /\ pc = "end"
    /\ printed' = Append(printed, <<>>)
    /\ pc' = "printed"
    /\ UNCHANGED <<command, helpFrame>>

NextHelp ==
    \/ PrintHeader
    \/ PrintUsage
    \/ PrintArguments
    \/ PrintFlags
    \/ PrintCommands
    \/ PrintEnd

SpecHelp == InitHelp /\ [][NextHelp]_vars

----------------------------------------------------------------------------
(* Claims about the builders *)

NameUsed(c, n) ==
    \/ \E i \in 1..Len(c.flags) : c.flags[i].name = n
    \/ \E i \in 1..Len(c.params) : c.params[i].name = n

ItemNamesOf(c) ==
    [i \in 1..(Len(c.flags) + Len(c.params)) |->
        IF i <= Len(c.flags) THEN c.flags[i].name
        ELSE c.params[i - Len(c.flags)].name]

HasAlias(f) == Len(f.short) + Len(f.long) > 0

\* C7: Command.arg(x) raises whenever x's name is the name of a Flag or of a
\* Param the Command already holds, and then leaves the flag list and the
\* param list as they were; so the names of the Flags and Params of a Command
\* are pairwise distinct in every state.
C7_DuplicateNameRejected ==
    /\ [](IsCommand(cmd) =>
            \A i, j \in DOMAIN ItemNamesOf(cmd) :
                i # j => ItemNamesOf(cmd)[i] # ItemNamesOf(cmd)[j])
    /\ [][(last'.op = "Command.arg" /\ NameUsed(cmd, last'.arg.name)) =>
            /\ last'.raised
            /\ cmd'.flags = cmd.flags
            /\ cmd'.params = cmd.params]_vars

\* C7 witness: arg was refused for a Flag, which has an alias, whose name is
\* the name of a Param of the Command.
C7_Witness ==
    /\ last.op = "Command.arg"
    /\ last.raised
    /\ IsFlag(last.arg)
    /\ HasAlias(last.arg)
    /\ \E i \in 1..Len(cmd.params) : cmd.params[i].name = last.arg.name

\* C8: once the Command holds an optional Param, Command.arg with a required
\* Param raises and leaves the param list as it was, however many Params
\* follow the optional one; so no required Param follows an optional Param in
\* the param list of any state.
C8_RequiredAfterOptionalRejected ==
    /\ [](IsCommand(cmd) =>
            \A i, j \in 1..Len(cmd.params) :
                (i < j /\ is_optional(cmd.params[i])) => is_optional(cmd.params[j]))
    /\ [][(/\ last'.op = "Command.arg"
           /\ IsParam(last'.arg)
           /\ ~is_optional(last'.arg)
           /\ \E i \in 1..Len(cmd.params) : is_optional(cmd.params[i])) =>
            /\ last'.raised
            /\ cmd'.params = cmd.params]_vars

\* C8 witness: arg was refused for a required Param of an unused name while
\* the Command holds two optional Params.
C8_Witness ==
    /\ last.op = "Command.arg"
    /\ last.raised
    /\ IsParam(last.arg)
    /\ ~is_optional(last.arg)
    /\ ~NameUsed(cmd, last.arg.name)
    /\ Len(cmd.params) >= 2
    /\ is_optional(cmd.params[1])

\* C9: Command.arg(flag) raises when the Flag has no short and no long alias
\* and leaves the Command as it was; so every Flag in the flag list of a
\* Command has at least one alias.
C9_FlagWithoutAliasRejected ==
    /\ [](IsCommand(cmd) => \A i \in 1..Len(cmd.flags) : HasAlias(cmd.flags[i]))
    /\ [][(last'.op = "Command.arg" /\ IsFlag(last'.arg) /\ ~HasAlias(last'.arg)) =>
            /\ last'.raised
            /\ cmd' = cmd]_vars

\* C9 witness: arg was refused for a Flag without alias whose name is unused,
\* and arg accepted a Flag whose only alias is a long one.
C9_Witness ==
    /\ last.op = "Command.arg"
    /\ last.raised
    /\ IsFlag(last.arg)
    /\ ~HasAlias(last.arg)
    /\ ~NameUsed(cmd, last.arg.name)
    /\ \E i \in 1..Len(cmd.flags) : Len(cmd.flags[i].short) = 0

\* C10: after any sequence of Flag builder calls a Flag holds a conversion
\* function only if its kind is "value", and Flag.parser on a Flag of another
\* kind raises and leaves the conversion function unset.
C10_ParserOnlyOnValueKind ==
    /\ [](IsFlag(item) => (item.parser # "None" => item.kind = "value"))
    /\ [][(last'.op = "Flag.parser" /\ item.kind # "value") =>
            /\ last'.raised
            /\ item'.parser = "None"]_vars

WellFormedLong(l) == StartsWith(l, <<"-", "-">>) /\ Len(l) > 2

\* C11: Command.long(l) and Flag.long(l) raise unless l (stripped, as both
\* builders strip it first) starts with "--" and is longer than 2 characters,
\* and so every long alias stored in a Command, or in a Flag a Command holds,
\* starts with "--" and is longer than 2 characters.
C11_LongAliasWellFormed ==
    /\ [](IsCommand(cmd) =>
            /\ \A i \in 1..Len(cmd.long) : WellFormedLong(cmd.long[i])
            /\ \A i \in 1..Len(cmd.flags) :
                  \A j \in 1..Len(cmd.flags[i].long) :
                      WellFormedLong(cmd.flags[i].long[j]))
    /\ [][(last'.op = "Command.long" /\ ~WellFormedLong(Strip(last'.arg))) =>
            /\ last'.raised
            /\ cmd' = cmd]_vars

----------------------------------------------------------------------------
(* Claims about parse_args *)

Range(s) == {s[i] : i \in 1..Len(s)}

FlagNames(c) == {c.flags[i].name : i \in 1..Len(c.flags)}
ParamNames(c) == {c.params[i].name : i \in 1..Len(c.params)}

\* the Flag or Param of that name occurred in the tokens scanned so far
Occurred(name) == \E i \in 1..Len(seen) : seen[i].name = name

\* the occurrences of that name, in the order they were met
OccsOf(name) == SelectSeq(seen, LAMBDA e : e.name = name)

\* what a Flag or Param stores for the string raw it was handed
Stored(x, raw) == IF x.parser = "None" THEN PyStr(raw) ELSE PyConv(x.parser, raw)

\* C1: when parse_args returns an Args, its values hold an entry for every
\* declared Flag and every declared Param of the selected Command and for
\* nothing else, and each Flag or Param that did not occur in the tokens holds
\* its declared default.
C1_ValuesHoldEveryDeclaredName ==
    outcome.kind = "Args" =>
        /\ DOMAIN outcome.values = FlagNames(command) \cup ParamNames(command)
        /\ \A i \in 1..Len(command.flags) :
              ~Occurred(command.flags[i].name) =>
                  outcome.values[command.flags[i].name] = command.flags[i].default
        /\ \A i \in 1..Len(command.params) :
              ~Occurred(command.params[i].name) =>
                  outcome.values[command.params[i].name] = command.params[i].default

\* C1 witness: a returned Args in which one Flag and one Param occurred, a
\* Flag that did not occur holds its default "d" and a Param that did not
\* occur holds None.
C1_Witness ==
    /\ outcome.kind = "Args"
    /\ commands = CommandsD
    /\ Occurred(<<"p">>)
    /\ Occurred(<<"y">>)
    /\ ~Occurred(<<"o">>)
    /\ ~Occurred(<<"z">>)
    /\ outcome.values[<<"o">>] = PyStr(<<"d">>)
    /\ outcome.values[<<"z">>] = PyNone

\* the two characters are one letter, in any case
SameLetter(x, y) ==
    \/ x = y
    \/ {x, y} = {"R", "r"}
    \/ {x, y} = {"U", "u"}

EqualIgnoringCase(a, b) ==
    /\ Len(a) = Len(b)
    /\ \A i \in 1..Len(a) : SameLetter(a[i], b[i])

\* the Command matches the first token: by its name (a), by an alias (b)
Matches(c, token) ==
    \/ ~c.disable_name /\ EqualIgnoringCase(token, c.name)
    \/ token \in Range(c.short) \cup Range(c.long)

Matching == {k \in 1..Len(commands) : Matches(commands[k], argv[1])}

\* C2: the lookup on the first token selects the first Command in declaration
\* order that matches it by name ignoring case (unless its name is disabled)
\* or by an alias exactly; when none matches, parse_args fails with
\* UnknownCommand.
C2_FirstMatchingCommand ==
    (pc # "idle" /\ Len(argv) > 0) =>
        IF Matching = {}
            THEN outcome = ValueError("UnknownCommand", argv[1])
        ELSE /\ \E k \in Matching :
                    /\ \A j \in Matching : k <= j
                    /\ command = commands[k]
             /\ outcome # ValueError("UnknownCommand", argv[1])

\* C2 witness: the first token is an alias two Commands declare, and the
\* first of them in declaration order was selected.
C2_Witness ==
    /\ pc = "done"
    /\ Len(argv) > 0
    /\ Cardinality(Matching) = 2
    /\ command = commands[1]
    /\ ~EqualIgnoringCase(argv[1], commands[1].name)

\* C3: after a successful parse the list under a Value flag's name holds one
\* element per occurrence of the flag, in the order the occurrences were met,
\* whatever form each occurrence used.
C3_ValueListInEncounterOrder ==
    outcome.kind = "Args" =>
        \A i \in 1..Len(command.flags) :
            LET f == command.flags[i]
                occs == OccsOf(f.name)
            IN  (f.kind = "value" /\ occs # <<>>) =>
                    outcome.values[f.name] =
                        PyList([j \in 1..Len(occs) |-> Stored(f, occs[j].raw)])

\* C3 witness: "--oo=u" and then the cluster "-po" with the next token "t"
\* were parsed, and the list under "o" holds the two converted values, the one
\* of "u" first.
C3_Witness ==
    /\ outcome.kind = "Args"
    /\ argv = <<<<"R", "u">>, <<"-", "-", "o", "o", "=", "u">>, <<"-", "p", "o">>, <<"t">>>>
    /\ outcome.values[<<"o">>] = PyList(<<PyConv("conv", <<"u">>), PyConv("conv", <<"t">>)>>)

\* the Flag a short flag name resolves to: the first Flag in declaration
\* order that declares it; 0 when none does
ShortTarget(name) ==
    IF \E i \in 1..Len(command.flags) : name \in Range(command.flags[i].short)
        THEN CHOOSE i \in 1..Len(command.flags) :
                /\ name \in Range(command.flags[i].short)
                /\ \A j \in 1..(i - 1) : name \notin Range(command.flags[j].short)
    ELSE 0

\* the last element of the list l
Last(l) == l[Len(l)]

\* C4: the characters of a cluster token "-xyz" are visited as "-x", "-y",
\* "-z" from left to right; a Value flag among them takes the next token of
\* the outer sequence as its value and moves the cursor past it, a flag of
\* another kind leaves the cursor; ["-vo", "t", "u"] gives count 1 for v,
\* ["t"] for o and leaves "u" as the positional.
C4_ClusterValueFromNextToken ==
    /\ []((/\ outcome.kind = "Args"
           /\ commands = CommandsA
           /\ argv = <<<<"r", "u">>, <<"-", "v", "o">>, <<"t">>, <<"u">>>>) =>
            /\ outcome.values[<<"v">>] = PyInt(1)
            /\ outcome.values[<<"o">>] = PyList(<<PyStr(<<"t">>)>>)
            /\ outcome.values[<<"x">>] = PyStr(<<"u">>))
    /\ [][(pc = "loop" /\ pc' = "short") =>
            /\ Len(flag_names') = Len(arg_value') - 1
            /\ \A i \in 1..Len(flag_names') : flag_names'[i] = <<"-", arg_value'[i + 1]>>]_vars
    /\ [][(pc = "short" /\ outcome' = NoOutcome) =>
            LET k == ShortTarget(Head(flag_names))
            IN  /\ k # 0
                /\ flag_names' = Tail(flag_names)
                /\ IF command.flags[k].kind = "value"
                       THEN /\ idx' = idx + 1
                            /\ Last(values'[command.flags[k].name].items) =
                                   Stored(command.flags[k], argv[idx + 1])
                   ELSE idx' = idx]_vars

\* C4 witness: ["ru", "-vo", "t", "u"] was parsed to an Args.
C4_Witness ==
    /\ outcome.kind = "Args"
    /\ commands = CommandsA
    /\ argv = <<<<"r", "u">>, <<"-", "v", "o">>, <<"t">>, <<"u">>>>

\* the token fetched last is a short cluster
InCluster == StartsWith(arg_value, <<"-">>) /\ ~StartsWith(arg_value, <<"-", "-">>)

\* a character of the cluster visited before the next one resolved to a Value
\* flag, which took its value
ValueFlagHit ==
    /\ pc = "short"
    /\ \E i \in 2..(Len(arg_value) - Len(flag_names)) :
          /\ ShortTarget(<<"-", arg_value[i]>>) # 0
          /\ command.flags[ShortTarget(<<"-", arg_value[i]>>)].kind = "value"

\* C5 as claimed: once a Value flag of a cluster has taken the next outer
\* token, the characters after it in the cluster are skipped: they are not
\* resolved and change neither the values nor the required-flags working set.
C5_RestOfClusterSkipped ==
    [][ValueFlagHit =>
        /\ values' = values
        /\ required_flags' = required_flags
        /\ seen' = seen
        /\ outcome' = outcome]_vars

\* C5 as amended: the characters after a Value flag of a cluster are not
\* skipped.  When the scanning loop goes on after a cluster, every character
\* of the cluster has been resolved as a short flag, in order, the ones after
\* a Value flag included.
C5_RestOfClusterResolved ==
    (pc = "loop" /\ InCluster) =>
        LET n == Len(arg_value) - 1
        IN  /\ Len(seen) >= n
            /\ \A i \in 1..n :
                  LET k == ShortTarget(<<"-", arg_value[i + 1]>>)
                  IN  /\ k # 0
                      /\ seen[Len(seen) - n + i].name = command.flags[k].name
                      /\ seen[Len(seen) - n + i].form = "short"

\* C5 witness: the cluster "-ov" was parsed with "t" as the next token: o took
\* "t" and v, the character after o, was counted.
C5_Witness ==
    /\ pc = "loop"
    /\ arg_value = <<"-", "o", "v">>
    /\ values[<<"o">>] = PyList(<<PyStr(<<"t">>)>>)
    /\ values[<<"v">>] = PyInt(1)

\* the required Flags of the selected Command that did not occur
Unobserved ==
    {command.flags[i].name : i \in
        {j \in 1..Len(command.flags) :
            command.flags[j].required /\ ~Occurred(command.flags[j].name)}}

NumPositionals == Len(SelectSeq(seen, LAMBDA e : e.form = "positional"))

\* the next expected Param exists and is required
RequiredParamUnfilled ==
    /\ NumPositionals < Len(command.params)
    /\ command.params[NumPositionals + 1].required

\* C6: when the tokens are exhausted, no required Param is unfilled and some
\* required Flags never occurred, parse_args fails with MissingRequiredFlags
\* and the error names all of them and no Flag that occurred; an Args is
\* returned only when every required Flag occurred.
C6_MissingRequiredFlagsNamesAll ==
    /\ []((outcome.kind = "ValueError" /\ outcome.error = "MissingRequiredFlags") =>
            (outcome.detail = Unobserved /\ Unobserved # {}))
    /\ [](outcome.kind = "Args" => Unobserved = {})
    /\ [][(/\ pc = "loop"
           /\ idx >= Len(argv)
           /\ ~RequiredParamUnfilled
           /\ Unobserved # {}) =>
            outcome' = ValueError("MissingRequiredFlags", Unobserved)]_vars

\* C6 witness: MissingRequiredFlags names two required Flags while a third
\* required Flag, which occurred, is not named.
C6_Witness ==
    /\ outcome.kind = "ValueError"
    /\ outcome.error = "MissingRequiredFlags"
    /\ Cardinality(outcome.detail) = 2
    /\ \E i \in 1..Len(command.flags) :
          /\ command.flags[i].required
          /\ Occurred(command.flags[i].name)

\* the Flag or Param of the selected Command that has this name
Declared(name) ==
    IF name \in FlagNames(command)
        THEN command.flags[CHOOSE i \in 1..Len(command.flags) : command.flags[i].name = name]
    ELSE command.params[CHOOSE i \in 1..Len(command.params) : command.params[i].name = name]

\* this step resolved a Param, or a Value flag for which a value was there,
\* that holds a conversion function: the function is called on that string
ConversionCalled ==
    /\ pc \in {"loop", "short"}
    /\ Len(seen') = Len(seen) + 1
    /\ LET o == Last(seen')
           x == Declared(o.name)
       IN  /\ x.parser # "None"
           /\ IsParam(x) \/ x.kind = "value"
           /\ \/ o.form \in {"positional", "long="}
              \/ o.form = "long" /\ idx + 1 < Len(argv)
              \/ o.form = "short" /\ idx < Len(argv)

\* what the conversion function called in this step did
Conversion == Convert(Declared(Last(seen').name).parser, Last(seen').raw)

EndsWith(s, t) == Len(s) >= Len(t) /\ SubSeq(s, Len(s) - Len(t) + 1, Len(s)) = t

\* C12: when the conversion function called for a positional, a long Value
\* flag or a short Value flag raises a KeyboardInterrupt or an
\* InterruptedError, parse_args ends with that same exception; when it raises
\* anything else, parse_args ends with the InvalidArgument error whose message
\* ends with the text of the cause; either way the call is over and gave no
\* Args.
C12_InterruptPropagatesFailureWrapped ==
    [][ConversionCalled =>
          /\ Conversion.kind \in {"KeyboardInterrupt", "InterruptedError"} =>
                /\ outcome' = [kind |-> Conversion.kind]
                /\ pc' = "done"
          /\ Conversion.kind = "Exception" =>
                /\ outcome'.kind = "ValueError"
                /\ outcome'.error = "InvalidArgument"
                /\ EndsWith(outcome'.detail, ErrText)
                /\ pc' = "done"
          /\ Conversion.kind = "ok" => outcome' = NoOutcome]_vars

\* the call ended with that exception of a conversion function, met in that
\* form
EndedBy(kind, form) ==
    /\ pc = "done"
    /\ seen # <<>>
    /\ Last(seen).form = form
    /\ outcome.kind = kind

\* ["rU", "t", "-i", "u"]: the positional was stored, then the conversion
\* function of the short Value flag raised an InterruptedError for "u", and
\* the call ended with it
C12_Witness ==
    /\ argv = <<<<"r", "U">>, <<"t">>, <<"-", "i">>, <<"u">>>>
    /\ EndedBy("InterruptedError", "short")
    /\ HasAttr(values, <<"x">>)
    /\ Last(seen).raw = <<"u">>

\* the names of the Presence flags of the selected Command
PresenceNames ==
    {command.flags[i].name : i \in {j \in 1..Len(command.flags) : command.flags[j].kind = "present"}}

\* the kinds of exception parse_args ends with
ErrorKinds == {"ValueError", "KeyboardInterrupt", "InterruptedError"}

\* C13: parse_args gives its caller nothing before it ends, and then either
\* an exception that carries no values, whatever was recorded before it, or
\* an Args; an Args only when no failure was met: all tokens scanned, every
\* declared name present in the values, no Presence flag met twice, no
\* positional beyond the Params, no required Param or Flag missing.
C13_FailingParseGivesNoResult ==
    /\ outcome # NoOutcome <=> pc = "done"
    /\ pc = "done" => outcome.kind \in ErrorKinds \cup {"Args"}
    /\ outcome.kind \in ErrorKinds => DOMAIN outcome \cap {"values", "command"} = {}
    /\ outcome.kind = "Args" =>
          /\ DOMAIN outcome.values = FlagNames(command) \cup ParamNames(command)
          /\ idx >= Len(argv)
          /\ \A n \in PresenceNames : Len(OccsOf(n)) <= 1
          /\ NumPositionals <= Len(command.params)
          /\ ~RequiredParamUnfilled
          /\ Unobserved = {}

\* ["ru", "t", "t", "t"]: x and y were recorded, the third positional failed,
\* and the caller got the error only
C13_Witness ==
    /\ argv = <<<<"r", "u">>, <<"t">>, <<"t">>, <<"t">>>>
    /\ pc = "done"
    /\ outcome = ValueError("UnexpectedPositional", <<"t">>)
    /\ DOMAIN values = {<<"x">>, <<"y">>}

\* C14: no step of parse_args changes the commands it was given, whether the
\* call ends with an Args or with an exception, and a second call on the same
\* commands and argv ends as the first one did.
C14_SpecModelReadOnly ==
    /\ [][commands' = commands]_vars
    /\ [](pc = "done" /\ first # NoOutcome => outcome = first)

\* ["Ru", "-po", "t", "t"] parsed twice: both calls gave the same Args, the
\* defaults among its values
C14_Witness ==
    /\ argv = <<<<"R", "u">>, <<"-", "p", "o">>, <<"t">>, <<"t">>>>
    /\ commands = CommandsD
    /\ pc = "done"
    /\ first.kind = "Args"
    /\ outcome = first
    /\ outcome.values[<<"z">>] = PyNone

\* the names of the Flags and Params met in the tokens scanned so far
OccurredNames == {seen[i].name : i \in 1..Len(seen)}

\* C17: when the tokens are exhausted while the next expected Param is
\* required and some required Flag never occurred, parse_args ends with
\* MissingRequiredPositional naming that Param, not with MissingRequiredFlags;
\* no default is in the values while the tokens are scanned or when such an
\* error ends the call, and an Args, with the defaults, is given only when
\* neither check failed.
C17_PositionalCheckedBeforeFlags ==
    /\ [][(pc = "loop" /\ idx >= Len(argv) /\ RequiredParamUnfilled /\ Unobserved # {}) =>
            outcome' = ValueError("MissingRequiredPositional",
                                  command.params[NumPositionals + 1].name)]_vars
    /\ [](outcome.kind # "Args" => DOMAIN values \subseteq OccurredNames)
    /\ [](outcome.kind = "Args" => ~RequiredParamUnfilled /\ Unobserved = {})

\* ["RU", "-v"]: v occurred, the required Flags o and n did not, the required
\* Param x is unfilled: the error names x, and the values hold v alone
C17_Witness ==
    /\ argv = <<<<"R", "U">>, <<"-", "v">>>>
    /\ commands = CommandsB
    /\ pc = "done"
    /\ Unobserved = {<<"o">>, <<"n">>}
    /\ outcome = ValueError("MissingRequiredPositional", <<"x">>)
    /\ DOMAIN values = {<<"v">>}

NoDash(token) == ~StartsWith(token, <<"-">>)

\* the occurrences of Value flags that took their value from the next token
TookNextToken ==
    SelectSeq(seen, LAMBDA e : e.form \in {"long", "short"} /\ Declared(e.name).kind = "value")

\* how many of the tokens before the cursor start with no dash and were not
\* taken by a Value flag as its value
PositionalsBefore ==
    Cardinality({j \in 1..(idx - 1) : NoDash(At(argv, j))})
        - Len(SelectSeq(TookNextToken, LAMBDA e : NoDash(e.raw)))

\* C18: a token that starts with no dash and that the scanning loop fetches
\* is given to the Param whose place is the number of such tokens fetched
\* before it plus one, whatever flag tokens and flag values lie between them,
\* and fails with UnexpectedPositional when there is no such Param; a token a
\* Value flag took as its value is not among those counted.
C18_PositionalsInDeclarationOrder ==
    /\ [][(pc = "loop" /\ idx < Len(argv) /\ NoDash(At(argv, idx))) =>
            IF PositionalsBefore >= Len(command.params)
                THEN /\ outcome' = ValueError("UnexpectedPositional", At(argv, idx))
                     /\ values' = values
            ELSE LET param == command.params[PositionalsBefore + 1]
                 IN  /\ Last(seen') = Occ(param.name, "positional", At(argv, idx))
                     /\ outcome' = NoOutcome =>
                           values' = SetAttr(values, param.name, Stored(param, At(argv, idx)))]_vars
    /\ [](pc = "loop" => param_idx = PositionalsBefore)

\* ["ru", "-o", "t", "u"]: "t" went to the Value flag o, and "u", the second
\* token without a dash, to the first Param x
C18_Witness ==
    /\ argv = <<<<"r", "u">>, <<"-", "o">>, <<"t">>, <<"u">>>>
    /\ commands = CommandsA
    /\ outcome.kind = "Args"
    /\ outcome.values[<<"o">>] = PyList(<<PyStr(<<"t">>)>>)
    /\ outcome.values[<<"x">>] = PyStr(<<"u">>)
    /\ outcome.values[<<"y">>] = PyStr(<<"d">>)

\* C19: a Presence flag is never met more than twice, and when it is met a
\* second time, by whatever aliases and in whatever forms, the call ends
\* there with DuplicateFlag; an Args holds True for every Presence flag that
\* was met.
C19_SecondOccurrenceDuplicateFlag ==
    command # NoObj =>
        \A n \in PresenceNames :
            /\ Len(OccsOf(n)) <= 2
            /\ Len(OccsOf(n)) = 2 =>
                  /\ pc = "done"
                  /\ outcome.kind = "ValueError"
                  /\ outcome.error = "DuplicateFlag"
                  /\ Last(seen).name = n
            /\ (outcome.kind = "Args" /\ Occurred(n)) => outcome.values[n] = PyTrue

\* C19, amended: as above, but a second occurrence written as a long token
\* with "=value" ends the call with the error for a value given to a flag
\* that takes none, which is checked before the duplicate.
C19_PresenceAtMostOnce ==
    command # NoObj =>
        \A n \in PresenceNames :
            /\ Len(OccsOf(n)) <= 2
            /\ Len(OccsOf(n)) = 2 =>
                  /\ pc = "done"
                  /\ outcome.kind = "ValueError"
                  /\ outcome.error = IF Last(seen).form = "long=" THEN "ValueNotAccepted"
                                     ELSE "DuplicateFlag"
                  /\ Last(seen).name = n
            /\ (outcome.kind = "Args" /\ Occurred(n)) => outcome.values[n] = PyTrue

\* ["Ru", "t", "-pq"]: -p and -q are aliases of one Presence flag, and the
\* second character of the cluster fails
C19_Witness ==
    /\ argv = <<<<"R", "u">>, <<"t">>, <<"-", "p", "q">>>>
    /\ commands = CommandsD
    /\ pc = "done"
    /\ Len(OccsOf(<<"p">>)) = 2
    /\ outcome.kind = "ValueError"
    /\ outcome.error = "DuplicateFlag"
    /\ values[<<"p">>] = PyTrue

\* the names of the Count flags of the selected Command
CountNames ==
    {command.flags[i].name : i \in {j \in 1..Len(command.flags) : command.flags[j].kind = "count"}}

\* C20: an Args holds, for every Count flag that was met, the integer that is
\* the number of its occurrences, each long token and each matching character
\* of each short cluster being one occurrence; while the tokens are scanned
\* the counter is the number of occurrences so far.
C20_CountIsNumberOfOccurrences ==
    command # NoObj =>
        \A n \in CountNames :
            /\ (Occurred(n) /\ pc \in {"loop", "short"}) => values[n] = PyInt(Len(OccsOf(n)))
            /\ (outcome.kind = "Args" /\ Occurred(n)) =>
                  outcome.values[n] = PyInt(Len(OccsOf(n)))

\* ["ru", "-vv", "--vv", "t"]: two characters of a cluster and a long token
\* give 3
C20_Witness ==
    /\ argv = <<<<"r", "u">>, <<"-", "v", "v">>, <<"-", "-", "v", "v">>, <<"t">>>>
    /\ commands = CommandsA
    /\ outcome.kind = "Args"
    /\ Len(SelectSeq(OccsOf(<<"v">>), LAMBDA e : e.form = "short")) = 2
    /\ Len(SelectSeq(OccsOf(<<"v">>), LAMBDA e : e.form = "long")) = 1
    /\ outcome.values[<<"v">>] = PyInt(3)

\* this step resolved a Value flag that has to take the next token
TakesNextToken ==
    /\ pc \in {"loop", "short"}
    /\ Len(seen') = Len(seen) + 1
    /\ Last(seen').form \in {"long", "short"}
    /\ Declared(Last(seen').name).kind = "value"

\* the cursor once the token of this iteration is fetched
Fetched == IF pc = "loop" THEN idx + 1 ELSE idx

\* C21: every iteration of the scanning loop moves the cursor forward, no
\* step of a call moves it back, and it never passes the end of argv: a
\* Value flag takes the next token only when the cursor is inside argv and
\* otherwise the call ends with MissingValue; with conversion functions that
\* return, every call of parse_args comes to its end.
C21_CursorAdvancesAndParseEnds ==
    /\ [](idx <= Len(argv))
    /\ [][(pc = "loop" /\ idx < Len(argv)) => (idx' > idx)]_vars
    /\ [][(pc \in {"loop", "short"}) => (idx' >= idx)]_vars
    /\ [][TakesNextToken =>
            IF Fetched < Len(argv)
                THEN /\ Last(seen').raw = At(argv, Fetched)
                     /\ idx' = Fetched + 1
            ELSE /\ outcome'.kind = "ValueError"
                 /\ outcome'.error = "MissingValue"
                 /\ idx' = Fetched]_vars
    /\ (pc = "idle") ~> (pc = "done")

\* ["ru", "t", "--oo"]: the Value flag is the last token, the cursor stands
\* at the end of argv, and the call ended with MissingValue
C21_Witness ==
    /\ argv = <<<<"r", "u">>, <<"t">>, <<"-", "-", "o", "o">>>>
    /\ commands = CommandsA
    /\ pc = "done"
    /\ idx = Len(argv)
    /\ outcome = ValueError("MissingValue", <<"-", "-", "o", "o">>)

\* the Flags of the selected Command that declare this long alias
Declaring(token) ==
    {k \in 1..Len(command.flags) : token \in Range(command.flags[k].long)}

\* C22: when the scanning loop fetches a token that is a long alias, as
\* Flag.long accepts them, of some Flag of the selected Command, the token
\* resolves to the first Flag that declares it and the call does not end with
\* UnknownFlag, also when the alias holds a "=".
C22_DeclaredLongAliasMatches ==
    [][(/\ pc = "loop"
        /\ idx < Len(argv)
        /\ WellFormedLong(At(argv, idx))
        /\ Declaring(At(argv, idx)) # {}) =>
            /\ Len(seen') = Len(seen) + 1
            /\ Last(seen').name =
                  command.flags[CHOOSE k \in Declaring(At(argv, idx)) :
                                    \A j \in Declaring(At(argv, idx)) : k <= j].name
            /\ ~(outcome'.kind = "ValueError" /\ outcome'.error = "UnknownFlag")]_vars

----------------------------------------------------------------------------
(* Claims about print_help *)

\* print_help has written all its lines for a Command it found
HelpOfCommand == pc = "printed" /\ command # NoObj

\* the line of the i-th Param in the Arguments block, of the i-th Flag in the
\* Flags block, of the i-th Command in the command list
ArgumentLine(i) == printed[8 + i]
FlagLine(i) == printed[10 + Len(command.params) + i]
CommandLine(i) == printed[6 + i]

\* "(default <value>)" with the value itself
DefaultSuffix(default) ==
    <<"(", "d", "e", "f", "a", "u", "l", "t", " ">> \o Repr(default) \o <<")">>

\* C15: in the help of a Command the line of a Flag ends, as the line of a
\* Param does, with "(default <value>)" holding the Flag's own default when
\* that default is truthy, and with no such suffix when it is falsy or absent.
C15_FlagDefaultSuffix ==
    HelpOfCommand =>
        /\ \A i \in 1..Len(command.params) :
              LET p == command.params[i]
              IN  EndsWith(ArgumentLine(i),
                           IF Truthy(p.default)
                               THEN <<" ">> \o DefaultSuffix(p.default)
                           ELSE OrEmpty(p.description) \o <<" ">>)
        /\ \A i \in 1..Len(command.flags) :
              LET f == command.flags[i]
              IN  EndsWith(FlagLine(i),
                           IF Truthy(f.default)
                               THEN <<" ">> \o DefaultSuffix(f.default)
                           ELSE OrEmpty(f.description) \o <<" ">>)

\* the label starts at column 3 of the line, spaces fill it up to width, and
\* one more space follows
PaddedTo(line, label, width) ==
    /\ Len(line) >= width + 3
    /\ SubSeq(line, 1, 2) = <<" ", " ">>
    /\ SubSeq(line, 3, 2 + Len(label)) = label
    /\ \A k \in (3 + Len(label))..(3 + width) : line[k] = " "

Longest(labels) ==
    IF labels = <<>> THEN 0
    ELSE LET lens == {Len(labels[i]) : i \in 1..Len(labels)}
         IN  CHOOSE w \in lens : \A v \in lens : v <= w

ParamLabels == [i \in 1..Len(command.params) |-> param_label(command.params[i])]
FlagLabels == [i \in 1..Len(command.flags) |-> flag_label(command.flags[i])]
CommandLabels == [i \in 1..Len(commands) |-> command_label(commands[i])]

\* C16: every label of the Arguments block is padded to the length of the
\* longest label of the Arguments block, every label of the Flags block to
\* that of the longest label of the Flags block, every label of the command
\* list to that of the longest label of the command list.
C16_LabelsPaddedToLongest ==
    /\ HelpOfCommand =>
          /\ \A i \in 1..Len(command.params) :
                PaddedTo(ArgumentLine(i), ParamLabels[i], Longest(ParamLabels))
          /\ \A i \in 1..Len(command.flags) :
                PaddedTo(FlagLine(i), FlagLabels[i], Longest(FlagLabels))
    /\ (pc = "printed" /\ command = NoObj) =>
          \A i \in 1..Len(commands) :
              PaddedTo(CommandLine(i), CommandLabels[i], Longest(CommandLabels))

\* three Params whose labels are "<x>", "[yyy]", "[zz]" and two Flags whose
\* labels are "[-v]" and "<-o>": the Arguments block is 5 wide, the Flags
\* block 4
C16_Witness ==
    /\ HelpOfCommand
    /\ Len(command.params) = 3
    /\ Len(command.flags) = 2
    /\ ParamLabels = << <<"<", "x", ">">>, <<"[", "y", "y", "y", "]">>,
                        <<"[", "z", "z", "]">> >>
    /\ Longest(ParamLabels) = 5
    /\ Longest(FlagLabels) = 4
    /\ SubSeq(ArgumentLine(1), 1, 9) = <<" ", " ", "<", "x", ">", " ", " ", " ", "X">>
    /\ SubSeq(FlagLine(1), 1, 8) = <<" ", " ", "[", "-", "v", "]", " ", "V">>

====
